---- MODULE Spec2Model ----
(***************************************************************************)
(* audio-analyser (src/index.js): a pass-through Transform stream that     *)
(* keeps a bounded history of time-domain samples (_data), a smoothed      *)
(* spectrum (_fdata) and two sample counters (_fftCount, _timeoutCount).   *)
(*                                                                         *)
(* Numbers.  Samples are integers.  A spectrum entry is a one-element      *)
(* tuple <<v>> holding the value v / SpecScale, or <<>> for NaN.           *)
(* smoothingTimeConstant is held in halves (0 is k = 0, 1 is k = 1/2), so  *)
(* that every value the smoothing produces within the bounds is an exact   *)
(* multiple of 1 / SpecScale (and exact in a Float32Array).                *)
(* _timeoutCount is a non-negative integer or NaN.                         *)
(***************************************************************************)
EXTENDS Integers, Sequences, FiniteSets, TLC

\* Chunks the producer writes in one run, and frames per chunk at most.
MaxWrites == 3
MaxChunk == 4

VARIABLES
    self,       \* the Analyser object: options over prototype defaults, and its state
    timers,     \* callbacks handed to setTimeout and not yet run
    writing,    \* the Writable side waits for the callback of the chunk in flight
    trace,      \* what the last call of _write did, in order
    forwarded,  \* every chunk handed to the output side (push or 'data'), in order
    written,    \* every chunk written by the producer, in order
    signal,     \* which signal the producer streams
    sent,       \* samples of the signal written so far
    fftLog,     \* the value of sent at each transform that ran
    cbCount,    \* completion callbacks run so far
    twin,       \* a second analyser, fed the same chunks as self
    options,    \* the options self was constructed with
    call        \* the accessor call made last since the last write, if any

vars == <<self, timers, writing, trace, forwarded, written, signal,
          sent, fftLog, cbCount, twin, options, call>>

Min(a, b) == IF a < b THEN a ELSE b
Max(a, b) == IF a > b THEN a ELSE b

RECURSIVE Pow2(_)
Pow2(n) == IF n = 0 THEN 1 ELSE 2 * Pow2(n - 1)

(***************************************************************************)
(* JavaScript numbers                                                      *)
(***************************************************************************)
\* NaN as a value of a sample counter (the counters are otherwise >= 0).
NaN == -1

\* a + b
JsAdd(a, b) == IF a = NaN \/ b = NaN THEN NaN ELSE a + b

\* a % b for a >= 0: NaN when b is 0
JsMod(a, b) == IF a = NaN \/ b = NaN \/ b = 0 THEN NaN ELSE a % b

\* Math.floor(a / b) for a >= 0, b > 0
FloorDiv(a, b) == a \div b

\* a / b > c / d for b, d > 0; false when a is NaN.  The quotients are
\* compared exactly: IEEE division rounds monotonically and the operands are
\* small integers, so the doubles compare as the rationals do.
QuotientGreater(a, b, c, d) == a # NaN /\ a * d > c * b

\* Array.prototype.slice(start) for an integer start: a negative start counts
\* from the end, and -0 is 0.
Slice(s, start) ==
    LET len == Len(s)
        k == IF start < 0 THEN Max(len + start, 0) ELSE Min(start, len)
    IN  SubSeq(s, k + 1, len)

(***************************************************************************)
(* Spectrum values                                                         *)
(***************************************************************************)
\* Spectrum entries are counted in units of 1 / SpecScale: 4 is the largest
\* fftSize explored, and each of at most MaxWrites transforms halves once.
SpecScale == 4 * Pow2(MaxWrites)

FNaN == <<>>
FNum(v) == <<v>>
IsNum(f) == Len(f) = 1

\* cos(2 pi m / 4)
Cos4(m) == CASE m % 4 = 0 -> 1 [] m % 4 = 1 -> 0 [] m % 4 = 2 -> -1 [] OTHER -> 0

RECURSIVE SumTo(_, _)
SumTo(f, n) == IF n = 0 THEN 0 ELSE f[n] + SumTo(f, n - 1)

\* Re of bin i (from 0) of the forward DFT of the real sequence x, whose
\* length divides 4: sum over n of x[n] cos(2 pi i n / Len(x)).
ReDFT(x, i) ==
    LET L == Len(x)
        term == [n \in 1..L |-> x[n] * Cos4(((i * (n - 1)) % L) * (4 \div L))]
    IN  SumTo(term, L)

\* fft(1, inputRe, inputIm) followed by inputRe.get(i): the transform works in
\* place on the array it is given; reading past its end gives undefined.
FftGet(input, i) == IF i < Len(input) THEN FNum(ReDFT(input, i)) ELSE FNaN

\* Smooth with k taken to be one half whatever the option
SmoothHalf(k, old, re, size) ==
    IF ~IsNum(old) \/ ~IsNum(re) THEN FNaN
    ELSE FNum((old[1] + re[1] * (SpecScale \div size)) \div 2)

\* Smooth without the division by fftSize
SmoothUndivided(k, old, re, size) ==
    IF ~IsNum(old) \/ ~IsNum(re) THEN FNaN
    ELSE FNum((k * old[1] + (2 - k) * re[1] * SpecScale) \div 2)

\* k * old + (1 - k) * re / fftSize, with k in halves and old in units of
\* 1 / SpecScale; NaN if either operand is NaN (0 * NaN is NaN as well).
Smooth(k, old, re, size) ==
    IF ~IsNum(old) \/ ~IsNum(re) THEN FNaN
    ELSE FNum((k * old[1] + (2 - k) * re[1] * (SpecScale \div size)) \div 2)

(***************************************************************************)
(* Analyser.prototype._capture, step by step                               *)
(***************************************************************************)
\* pcm.getChannelData(chunk, channel, format): the samples of one channel of
\* an interleaved chunk, one per whole frame.
GetChannelData(chunk, ch, format) ==
    [j \in 1..(Len(chunk) \div format.channels) |->
        chunk[(j - 1) * format.channels + ch + 1]]

\* pcm.convertSample(sample, format, {float: true}) for a source format that
\* is float already: the sample is not rescaled.
ConvertSample(sample, format) == sample

\* self._data.concat(channelData).slice(-self.bufferSize)
ShiftData(data, channelData, size) == Slice(data \o channelData, -size)

\* FftDue one sample early
FftDueEarly(count, size) == count >= size - 1

\* FftDue with > for >=
FftDueStrict(count, size) == count > size

\* self._fftCount >= self.fftSize
FftDue(count, size) == count >= size

\* FftReset taking one window off the counter
FftResetDecrement(count, size) == count - size

\* self._fftCount = 0
FftReset(count, size) == 0

\* FftInput taking the oldest samples of the buffer
FftInputOldest(data, size) == SubSeq(data, 1, Min(size, Len(data)))

\* self._data.slice(-self.fftSize)
FftInput(data, size) == Slice(data, -size)

\* the smoothing loop over i in [0, fftSize)
Smoothed(fdata, input, k, size) ==
    [i \in 1..size |-> Smooth(k, fdata[i], FftGet(input, i - 1), size)]

\* ThrottleDue with >= for >
ThrottleDueAtLeast(count, rate, ms) ==
    ms # 0 /\ count # NaN /\ count * 1000 >= ms * rate

\* self.throttle && self._timeoutCount / self.sampleRate > self.throttle / 1000
ThrottleDue(count, rate, ms) ==
    ms # 0 /\ QuotientGreater(count, rate, ms, 1000)

\* ThrottleRest without the division by throttle
ThrottleRestOfRate(count, rate, ms) == JsMod(count, rate)

\* self._timeoutCount %= Math.floor(self.sampleRate / self.throttle)
ThrottleRest(count, rate, ms) == JsMod(count, FloorDiv(rate, ms))

\* One thing a handler did: op is "push" (the chunk is queued on the readable
\* side), "capture", "fft", "cb", "setTimeout" or "data" (the event is
\* emitted), arg the chunk or the transform's input, data the Time Buffer as
\* it was at that moment.
Ev(op, arg, obj) == [op |-> op, arg |-> arg, data |-> obj._data]

\* Capture with the throttle decided first, returning before the transform
\* when it defers
CaptureThrottleFirst(obj, chunk) ==
    LET raw == GetChannelData(chunk, obj.channel, obj)
        channelData == [j \in 1..Len(raw) |-> ConvertSample(raw[j], obj)]
        data == ShiftData(obj._data, channelData, obj.bufferSize)
        timeoutCount == JsAdd(obj._timeoutCount, Len(channelData))
        fftCount == obj._fftCount + Len(channelData)
        yield == ThrottleDue(timeoutCount, obj.sampleRate, obj.throttle)
        doFft == ~yield /\ FftDue(fftCount, obj.fftSize)
        input == FftInput(data, obj.fftSize)
    IN  [self |-> [obj EXCEPT
                     !._data = data,
                     !._fftCount = IF doFft THEN FftReset(fftCount, obj.fftSize)
                                   ELSE fftCount,
                     !._fdata = IF doFft
                                THEN Smoothed(@, input, obj.smoothingTimeConstant,
                                              obj.fftSize)
                                ELSE @,
                     !._timeoutCount =
                         IF yield
                         THEN ThrottleRest(timeoutCount, obj.sampleRate, obj.throttle)
                         ELSE timeoutCount],
         fft |-> IF doFft THEN <<input>> ELSE <<>>,
         done |-> IF yield THEN "setTimeout" ELSE "cb"]

\* _capture(chunk, cb): the object after the call, the inputs of the
\* transforms it ran, and how it handed over cb.
Capture(obj, chunk) ==
    LET raw == GetChannelData(chunk, obj.channel, obj)
        channelData == [j \in 1..Len(raw) |-> ConvertSample(raw[j], obj)]
        data == ShiftData(obj._data, channelData, obj.bufferSize)
        timeoutCount == JsAdd(obj._timeoutCount, Len(channelData))
        fftCount == obj._fftCount + Len(channelData)
        doFft == FftDue(fftCount, obj.fftSize)
        input == FftInput(data, obj.fftSize)
        yield == ThrottleDue(timeoutCount, obj.sampleRate, obj.throttle)
    IN  [self |-> [obj EXCEPT
                     !._data = data,
                     !._fftCount = IF doFft THEN FftReset(fftCount, obj.fftSize)
                                   ELSE fftCount,
                     !._fdata = IF doFft
                                THEN Smoothed(@, input, obj.smoothingTimeConstant,
                                              obj.fftSize)
                                ELSE @,
                     !._timeoutCount =
                         IF yield
                         THEN ThrottleRest(timeoutCount, obj.sampleRate, obj.throttle)
                         ELSE timeoutCount],
         fft |-> IF doFft THEN <<input>> ELSE <<>>,
         done |-> IF yield THEN "setTimeout" ELSE "cb"]

\* _capture without the else: cb is called after setTimeout(cb) as well
_captureCallsBoth(obj, chunk) ==
    LET r == Capture(obj, chunk)
    IN  [self |-> r.self,
         events |-> <<Ev("capture", chunk, r.self)>>
                    \o [i \in 1..Len(r.fft) |-> Ev("fft", r.fft[i], r.self)]
                    \o (IF r.done = "setTimeout"
                        THEN <<Ev("setTimeout", <<>>, r.self)>> ELSE <<>>)
                    \o <<Ev("cb", <<>>, r.self)>>]

\* _capture as the sequence of its effects
_capture(obj, chunk) ==
    LET r == Capture(obj, chunk)
    IN  [self |-> r.self,
         events |-> <<Ev("capture", chunk, r.self)>>
                    \o [i \in 1..Len(r.fft) |-> Ev("fft", r.fft[i], r.self)]
                    \o <<Ev(r.done, <<>>, r.self)>>]

(***************************************************************************)
(* The stream handlers                                                     *)
(***************************************************************************)
\* _transform(chunk, enc, cb): self.push(chunk); self._capture(chunk, cb)
_transform(obj, chunk) ==
    LET c == _capture(obj, chunk)
    IN  [self |-> c.self, events |-> <<Ev("push", chunk, obj)>> \o c.events]

\* _write, emitting 'data' only when the capture completed synchronously
_writeDropsDeferred(obj, chunk) ==
    IF obj._readableState.pipesCount = 0
    THEN LET c == _capture(obj, chunk)
         IN  [self |-> c.self,
              events |-> IF c.events[Len(c.events)].op = "cb"
                         THEN c.events \o <<Ev("data", chunk, c.self)>>
                         ELSE c.events]
    ELSE _transform(obj, chunk)

\* _write, emitting 'data' before the capture
_writeEmitsFirst(obj, chunk) ==
    IF obj._readableState.pipesCount = 0
    THEN LET c == _capture(obj, chunk)
         IN  [self |-> c.self, events |-> <<Ev("data", chunk, obj)>> \o c.events]
    ELSE _transform(obj, chunk)

\* _write(chunk, enc, cb).  With a pipe attached the chunk goes through
\* Transform.prototype._write, which hands it to _transform (at once: the
\* readable side is taken to be below its high-water mark).
_write(obj, chunk) ==
    IF obj._readableState.pipesCount = 0
    THEN LET c == _capture(obj, chunk)
         IN  [self |-> c.self, events |-> c.events \o <<Ev("data", chunk, c.self)>>]
    ELSE _transform(obj, chunk)

\* Analyser.prototype.frequencyBinCount = 1024/2
frequencyBinCount == 1024 \div 2

\* new Analyser(options): the options over the prototype's defaults.  The
\* configurations explored supply every option but frequencyBinCount, which
\* some supply and some leave to the prototype.
Analyser(opts) ==
    [fftSize |-> opts.fftSize,
     frequencyBinCount |-> IF "frequencyBinCount" \in DOMAIN opts
                           THEN opts.frequencyBinCount
                           ELSE frequencyBinCount,
     smoothingTimeConstant |-> opts.smoothingTimeConstant,
     throttle |-> opts.throttle,
     bufferSize |-> opts.bufferSize,
     channel |-> opts.channel,
     sampleRate |-> opts.sampleRate,
     channels |-> opts.channels,
     _readableState |-> [pipesCount |-> 0],
     _data |-> <<>>,
     _fdata |-> [i \in 1..opts.fftSize |-> FNum(0)],
     _timeoutCount |-> 0,
     _fftCount |-> 0]

(***************************************************************************)
(* The accessors                                                           *)
(*                                                                         *)
(* An entry of an array handed to or returned by an accessor is <<v>> for  *)
(* the number v (a spectrum value in units of 1 / SpecScale, a sample, or  *)
(* a byte), <<>> for NaN, Undefined, or Old(i).  An argument is a record:  *)
(* defined tells whether it was supplied, v holds the array or the size.   *)
(***************************************************************************)
\* The value undefined: what reading an array outside its indices gives.
Undefined == <<0, 0>>

\* What the caller's array held at index i (from 0) before the call: a value
\* unlike any the analyser holds.
Old(i) == <<1, i>>

\* An argument that was supplied, an omitted array and an omitted size.
Given(x) == [defined |-> TRUE, v |-> x]
Absent == [defined |-> FALSE, v |-> <<>>]
NoSize == [defined |-> FALSE, v |-> 0]

\* Whether a size argument is truthy: undefined and 0 are not.
Truthy(size) == size.defined /\ size.v # 0

\* self._fdata[i] and self._data[i] for an integer i
_fdataAt(obj, i) ==
    IF 0 <= i /\ i < Len(obj._fdata) THEN obj._fdata[i + 1] ELSE Undefined
_dataAt(obj, i) ==
    IF 0 <= i /\ i < Len(obj._data) THEN FNum(obj._data[i + 1]) ELSE Undefined

\* pcm.convertSample(x, {float: true}, {signed: false, bitDepth: 8}) for x
\* holding v / unit: the value is clamped to [-1, 1], moved to [0, 2] and
\* scaled by 128, rounding down; undefined and NaN give NaN.
ConvertToByte(x, unit) ==
    IF x = Undefined \/ x = FNaN THEN FNaN
    ELSE FNum(((Max(-unit, Min(unit, x[1])) + unit) * 128) \div unit)

\* What a call gave: the object after it, the value returned, which array
\* the returned reference points to ("arg" for the caller's own array, "new"
\* for one allocated by the call, "_data" or "_fdata" for the analyser's),
\* and whether it threw instead of returning.
Returned(obj, ret, ref) == [self |-> obj, ret |-> ret, ref |-> ref, threw |-> FALSE]
Thrown(obj) == [self |-> obj, ret |-> Absent, ref |-> "arg", threw |-> TRUE]

\* The loop of getFloatFrequencyData writing every bin of the spectrum below
\* frequencyBinCount, past the end of arr if need be (which grows an array)
FloatFrequencyLoopPastEnd(obj, arr) ==
    IF ~arr.defined THEN Thrown(obj)
    ELSE Returned(obj,
                  Given([c \in 1..Max(Min(obj.frequencyBinCount, Len(obj._fdata)),
                                      Len(arr.v)) |->
                            IF c <= obj.frequencyBinCount
                            THEN _fdataAt(obj, c - 1) ELSE arr.v[c]]),
                  "arg")

\* for (i = 0, l = Math.min(self.frequencyBinCount, arr.length); i < l; i++)
\*     arr[i] = self._fdata[i];
\* return arr.  Reading arr.length throws if arr is undefined.
FloatFrequencyLoop(obj, arr) ==
    IF ~arr.defined THEN Thrown(obj)
    ELSE LET l == Min(obj.frequencyBinCount, Len(arr.v))
         IN  Returned(obj,
                      Given([c \in 1..Len(arr.v) |->
                                IF c <= l THEN _fdataAt(obj, c - 1) ELSE arr.v[c]]),
                      "arg")

\* The same loop with arr[i] = pcm.convertSample(self._fdata[i], ...)
ByteFrequencyLoop(obj, arr) ==
    IF ~arr.defined THEN Thrown(obj)
    ELSE LET l == Min(obj.frequencyBinCount, Len(arr.v))
         IN  Returned(obj,
                      Given([c \in 1..Len(arr.v) |->
                                IF c <= l
                                THEN ConvertToByte(_fdataAt(obj, c - 1), SpecScale)
                                ELSE arr.v[c]]),
                      "arg")

\* size = Math.min(arr.length, self.fftSize);
\* for (c = 0, i = self._data.length - self.fftSize, l = i + size; i < l; i++, c++)
\*     arr[c] = self._data[i];
\* return arr
FloatTimeDomainLoop(obj, arr) ==
    IF ~arr.defined THEN Thrown(obj)
    ELSE LET size == Min(Len(arr.v), obj.fftSize)
             i0 == Len(obj._data) - obj.fftSize
         IN  Returned(obj,
                      Given([c \in 1..Len(arr.v) |->
                                IF c <= size THEN _dataAt(obj, i0 + c - 1)
                                ELSE arr.v[c]]),
                      "arg")

\* The same loop with arr[c] = pcm.convertSample(self._data[i], ...)
ByteTimeDomainLoop(obj, arr) ==
    IF ~arr.defined THEN Thrown(obj)
    ELSE LET size == Min(Len(arr.v), obj.fftSize)
             i0 == Len(obj._data) - obj.fftSize
         IN  Returned(obj,
                      Given([c \in 1..Len(arr.v) |->
                                IF c <= size
                                THEN ConvertToByte(_dataAt(obj, i0 + c - 1), 1)
                                ELSE arr.v[c]]),
                      "arg")

\* getFloatFrequencyData(arr)
getFloatFrequencyData(obj, arr) ==
    IF ~arr.defined THEN Returned(obj, arr, "arg") ELSE FloatFrequencyLoop(obj, arr)

\* getByteFrequencyData(arr)
getByteFrequencyData(obj, arr) ==
    IF ~arr.defined THEN Returned(obj, arr, "arg") ELSE ByteFrequencyLoop(obj, arr)

\* getFloatTimeDomainData(arr)
getFloatTimeDomainData(obj, arr) ==
    IF ~arr.defined THEN Returned(obj, arr, "arg") ELSE FloatTimeDomainLoop(obj, arr)

\* getByteTimeDomainData without if (!arr) return arr
getByteTimeDomainDataNoGuard(obj, arr) == ByteTimeDomainLoop(obj, arr)

\* getByteTimeDomainData(arr)
getByteTimeDomainData(obj, arr) ==
    IF ~arr.defined THEN Returned(obj, arr, "arg") ELSE ByteTimeDomainLoop(obj, arr)

\* getFrequencyData taking the last entries of the spectrum
getFrequencyDataLast(obj, size) ==
    LET n == Min(IF Truthy(size) THEN size.v ELSE obj.fftSize, Len(obj._fdata))
    IN  Returned(obj,
                 Given([i \in 1..n |-> _fdataAt(obj, Len(obj._fdata) - n + i - 1)]),
                 "new")

\* getFrequencyData(size): size = size || this.fftSize;
\* size = Math.min(size, this._fdata.length); result.push(this._fdata[i])
\* for i in [0, size); return result
getFrequencyData(obj, size) ==
    LET n == Min(IF Truthy(size) THEN size.v ELSE obj.fftSize, Len(obj._fdata))
    IN  Returned(obj, Given([i \in 1..n |-> _fdataAt(obj, i - 1)]), "new")

\* getTimeData returning this._data itself when all of it is asked for
getTimeDataShared(obj, size) ==
    LET n == Min(IF Truthy(size) THEN size.v ELSE obj.fftSize, Len(obj._data))
        s == Slice(obj._data, -n)
    IN  Returned(obj, Given([i \in 1..Len(s) |-> FNum(s[i])]),
                 IF n = Len(obj._data) THEN "_data" ELSE "new")

\* getTimeData(size): size = size || this.fftSize;
\* size = Math.min(size, this._data.length); return this._data.slice(-size)
getTimeData(obj, size) ==
    LET n == Min(IF Truthy(size) THEN size.v ELSE obj.fftSize, Len(obj._data))
        s == Slice(obj._data, -n)
    IN  Returned(obj, Given([i \in 1..Len(s) |-> FNum(s[i])]), "new")

\* The record of a call, and of no call.
Called(op, arg, r) ==
    [op |-> op, arg |-> arg, ret |-> r.ret, ref |-> r.ref, threw |-> r.threw,
     modified |-> FALSE]
NoCall == Called("none", Absent, Returned(0, Absent, "arg"))

(***************************************************************************)
(* The producer and the consumers                                          *)
(***************************************************************************)
\* Sample i (from 1) of the streamed signal: a ramp 1, 2, 3, ... of distinct
\* values, or the wave 1, 0, -1, 0, ...
SignalAt(sig, i) == IF sig = "ramp" THEN i ELSE Cos4(i - 1)

\* Frames from+1 .. from+n of the signal as an interleaved chunk: the signal
\* on the analysed channel, silence on the others.
Chunk(sig, from, n, obj) ==
    [p \in 1..(n * obj.channels) |->
        IF (p - 1) % obj.channels = obj.channel
        THEN SignalAt(sig, from + ((p - 1) \div obj.channels) + 1)
        ELSE 0]

Count(events, op) == Len(SelectSeq(events, LAMBDA e : e.op = op))
Args(events, ops) ==
    LET sel == SelectSeq(events, LAMBDA e : e.op \in ops)
    IN  [i \in 1..Len(sel) |-> sel[i].arg]

\* The configurations explored.  <<fftSize, bufferSize, smoothingTimeConstant
\* (in halves), signal>>: a buffer that never truncates (0), buffers shorter
\* than, as long as and longer than the window.
Sizes ==
    {<<2, 0, 1, "wave">>, <<2, 1, 0, "ramp">>, <<2, 2, 0, "wave">>,
     <<2, 3, 1, "ramp">>, <<4, 1, 0, "ramp">>, <<4, 2, 1, "wave">>,
     <<4, 4, 0, "wave">>, <<4, 5, 1, "ramp">>}

\* <<throttle, sampleRate, channels, channel>>: throttling disabled; a
\* threshold of 2 samples with a modulus of 500, of 3 and of 0.
Throttles ==
    {<<0, 1000, 1, 0>>, <<2, 1000, 2, 0>>, <<25, 80, 2, 1>>, <<500, 4, 1, 0>>}

Options(s, t) ==
    [fftSize |-> s[1], bufferSize |-> s[2], smoothingTimeConstant |-> s[3],
     throttle |-> t[1], sampleRate |-> t[2], channels |-> t[3], channel |-> t[4]]

\* The state after construction; twin is a second analyser that differs from
\* self in its throttle option only (disabled, or enabled where self has it
\* disabled) and is fed the same chunks.
StartFrom(o, sig) ==
    /\ self = Analyser(o)
    /\ twin = Analyser([o EXCEPT !.throttle = IF o.throttle = 0 THEN 2 ELSE 0])
    /\ signal = sig
    /\ timers = 0
    /\ writing = FALSE
    /\ trace = <<>>
    /\ forwarded = <<>>
    /\ written = <<>>
    /\ sent = 0
    /\ fftLog = <<>>
    /\ cbCount = 0
    /\ options = o
    /\ call = NoCall

Start(s, t) == StartFrom(Options(s, t), s[4])

Init == \E s \in Sizes, t \in Throttles : Start(s, t)

\* stream.write(chunk) with no chunk in flight: the Writable side calls
\* _write at once.  (A chunk written while another is in flight is kept by
\* the Writable side and handed to _write once cb has run, which is this
\* action taken later.)
Write(n) ==
    /\ ~writing
    /\ Len(written) < MaxWrites
    /\ \E chunk \in {Chunk(signal, sent, n, self)} :
       \E h \in {_write(self, chunk)} :
           /\ self' = h.self
           /\ twin' = _capture(twin, chunk).self
           /\ trace' = h.events
           /\ forwarded' = forwarded \o Args(h.events, {"push", "data"})
           /\ timers' = timers + Count(h.events, "setTimeout")
           /\ cbCount' = cbCount + Count(h.events, "cb")
           /\ writing' = (Count(h.events, "cb") = 0)
           /\ written' = Append(written, chunk)
           /\ sent' = sent + n
           /\ fftLog' = fftLog \o [i \in 1..Count(h.events, "fft") |-> sent + n]
    /\ call' = NoCall
    /\ UNCHANGED <<signal, options>>

\* A timer set by setTimeout(cb) runs cb on a later turn.
Timeout ==
    /\ timers > 0
    /\ timers' = timers - 1
    /\ writing' = FALSE
    /\ cbCount' = cbCount + 1
    /\ UNCHANGED <<self, trace, forwarded, written, signal, sent, fftLog, twin,
                   options, call>>

\* stream.pipe(dest)
Pipe ==
    /\ self._readableState.pipesCount = 0
    /\ self' = [self EXCEPT !._readableState.pipesCount = 1]
    /\ UNCHANGED <<timers, writing, trace, forwarded, written, signal, sent,
                   fftLog, cbCount, twin, options, call>>

\* stream.unpipe(dest)
Unpipe ==
    /\ self._readableState.pipesCount > 0
    /\ self' = [self EXCEPT !._readableState.pipesCount = @ - 1]
    /\ UNCHANGED <<timers, writing, trace, forwarded, written, signal, sent,
                   fftLog, cbCount, twin, options, call>>

Next ==
    \/ \E n \in 0..MaxChunk : Write(n)
    \/ Timeout
    \/ Pipe
    \/ Unpipe

Spec == Init /\ [][Next]_vars

\* Timers set by setTimeout run: the event loop reaches every pending timer.
SpecFair == Init /\ [][Next]_vars /\ WF_vars(Timeout)

\* The defaults throttle = 50 and sampleRate = 44100, mono, with chunks
\* around the threshold of 2205 samples and the modulus of 882.
ChunkSizesC8 == {0, 1, 882, 2205, 2206, 4411}

InitC8 == Start(<<4, 5, 1, "wave">>, <<50, 44100, 1, 0>>)

\* No pipe is attached in these runs.
NextC8 ==
    \/ \E n \in ChunkSizesC8 : Write(n)
    \/ Timeout

SpecC8 == InitC8 /\ [][NextC8]_vars

(***************************************************************************)
(* The consumer polling the accessors                                      *)
(***************************************************************************)
\* The arrays a caller passes: none, or one of fresh content that is empty,
\* shorter than, as long as or longer than fftSize.
DestArgs(obj) ==
    {Absent} \cup
    {Given([c \in 1..n |-> Old(c - 1)]) :
        n \in {0, 1, obj.fftSize - 1, obj.fftSize, obj.fftSize + 1}}

\* The sizes a caller asks for: none, 0, or one below, at or above fftSize.
SizeArgs(obj) ==
    {NoSize} \cup {Given(n) : n \in {0, 1, obj.fftSize, obj.fftSize + 1}}

\* A call of an accessor: op is its name, r what it gave.
Access(op, arg, r) ==
    /\ self' = r.self
    /\ call' = Called(op, arg, r)
    /\ UNCHANGED <<timers, writing, trace, forwarded, written, signal, sent,
                   fftLog, cbCount, twin, options>>

GetFloatFrequencyData ==
    \E arr \in DestArgs(self) :
        Access("getFloatFrequencyData", arr, getFloatFrequencyData(self, arr))

GetByteFrequencyData ==
    \E arr \in DestArgs(self) :
        Access("getByteFrequencyData", arr, getByteFrequencyData(self, arr))

GetFloatTimeDomainData ==
    \E arr \in DestArgs(self) :
        Access("getFloatTimeDomainData", arr, getFloatTimeDomainData(self, arr))

GetByteTimeDomainData ==
    \E arr \in DestArgs(self) :
        Access("getByteTimeDomainData", arr, getByteTimeDomainData(self, arr))

GetFrequencyData ==
    \E size \in SizeArgs(self) :
        Access("getFrequencyData", size, getFrequencyData(self, size))

GetTimeData ==
    \E size \in SizeArgs(self) :
        Access("getTimeData", size, getTimeData(self, size))

\* The caller overwrites the first entry of the array a call returned; an
\* array shared with the analyser changes for the analyser as well.
Modify ==
    /\ call.op # "none"
    /\ ~call.modified
    /\ call.ret.defined
    /\ call.ret.v # <<>>
    /\ call' = [call EXCEPT !.modified = TRUE, !.ret.v[1] = Old(0)]
    /\ self' = CASE call.ref = "_data" -> [self EXCEPT !._data[1] = @ + 1]
                 [] call.ref = "_fdata" -> [self EXCEPT !._fdata[1] = FNaN]
                 [] OTHER -> self
    /\ UNCHANGED <<timers, writing, trace, forwarded, written, signal, sent,
                   fftLog, cbCount, twin, options>>

\* Whether frequencyBinCount is supplied as an option: not at all, as a
\* count below every fftSize explored, or as one between them.
BinCounts == {<<>>, <<1>>, <<3>>}

\* Two interleaved channels, the second analysed, a throttle that defers
\* every capture that takes the count above 2 samples.
InitAcc ==
    \E s \in Sizes, f \in BinCounts :
        LET o == Options(s, <<25, 80, 2, 1>>)
        IN  StartFrom(IF f = <<>> THEN o ELSE [frequencyBinCount |-> f[1]] @@ o,
                      s[4])

\* Chunks of one frame and of three, polled between them; no pipe is
\* attached in these runs.
NextAcc ==
    \/ \E n \in {1, 3} : Write(n)
    \/ Timeout
    \/ GetFloatFrequencyData
    \/ GetByteFrequencyData
    \/ GetFloatTimeDomainData
    \/ GetByteTimeDomainData
    \/ GetFrequencyData
    \/ GetTimeData
    \/ Modify

SpecAcc == InitAcc /\ [][NextAcc]_vars

(***************************************************************************)
(* What the producer knows                                                 *)
(***************************************************************************)
\* The m samples of the signal that end at sample total, in arrival order.
Recent(sig, total, m) == [i \in 1..m |-> SignalAt(sig, total - m + i)]

\* What the buffer holds once total samples were appended (bufferSize 0
\* never truncates).
Held(sig, total, size) ==
    Recent(sig, total, IF size = 0 THEN total ELSE Min(total, size))

\* The last m entries of s.
LastN(s, m) == [i \in 1..m |-> s[Len(s) - m + i]]

\* A step in which the producer wrote a chunk (and _write ran).
WriteStep == Len(written') = Len(written) + 1

(***************************************************************************)
(* C1.  The Time Buffer is never longer than bufferSize, and it holds the  *)
(* most recently appended min(total appended, bufferSize) samples in       *)
(* arrival order, whatever the chunk sizes and the bufferSize.             *)
(* Fails for bufferSize = 0: slice(-0) is slice(0) and keeps everything.   *)
(***************************************************************************)
C1_TimeBufferBounded ==
    /\ Len(self._data) <= self.bufferSize
    /\ self._data = Recent(signal, sent, Min(sent, self.bufferSize))

\* The same for every bufferSize > 0 (this part of C1 holds).
C1_HoldsForPositiveSize ==
    self.bufferSize > 0 => C1_TimeBufferBounded

(***************************************************************************)
(* C2.  Every chunk written is handed to the output side (pushed, or       *)
(* emitted as 'data') exactly once, unchanged and in arrival order,        *)
(* whether or not its capture runs a transform or defers completion.       *)
(***************************************************************************)
C2_PassThrough == forwarded = written

\* Two chunks went through, the last one with a transform and a deferral.
C2_Witness ==
    /\ Len(forwarded) >= 2
    /\ forwarded[Len(forwarded)] # <<>>
    /\ Count(trace, "fft") = 1
    /\ Count(trace, "setTimeout") = 1

(***************************************************************************)
(* C3.  A chunk written while no pipe is attached is captured inside the   *)
(* call of _write, and exactly one 'data' event carrying that chunk is     *)
(* emitted inside the same call, after the capture (and after cb was       *)
(* called or handed to setTimeout), when the Time Buffer already holds the *)
(* new samples; the chunk is not pushed to the readable side.              *)
(***************************************************************************)
C3_NoPipeWrite ==
    [][(WriteStep /\ self._readableState.pipesCount = 0) =>
        LET chunk == written'[Len(written')]
            last == trace'[Len(trace')]
        IN  /\ Count(trace', "capture") = 1
            /\ trace'[1].op = "capture"
            /\ trace'[1].arg = chunk
            /\ Count(trace', "data") = 1
            /\ last.op = "data"
            /\ last.arg = chunk
            /\ last.data = self'._data
            /\ LET m == Min(sent' - sent, Len(last.data))
               IN  /\ sent' > sent => m > 0
                   /\ LastN(last.data, m) = Recent(signal, sent', m)
            /\ Count(trace', "push") = 0
            /\ Count(trace', "cb") + Count(trace', "setTimeout") = 1
            /\ trace'[Len(trace') - 1].op \in {"cb", "setTimeout"}]_vars

\* A write without a pipe whose completion was deferred and is still pending.
C3_Witness ==
    /\ trace # <<>>
    /\ Count(trace, "push") = 0
    /\ Count(trace, "setTimeout") = 1
    /\ Count(trace, "data") = 1
    /\ timers = 1

(***************************************************************************)
(* C4.  In every capture the transform runs if and only if _fftCount plus  *)
(* the chunk's samples is >= fftSize, at most once however many windows    *)
(* the chunk spans; when it runs _fftCount becomes 0 (otherwise it keeps   *)
(* the sum), and the Time Buffer loses no sample to the transform.         *)
(***************************************************************************)
C4_TransformTrigger ==
    [][WriteStep =>
        LET acc == self._fftCount + (sent' - sent)
            ran == Count(trace', "fft")
        IN  /\ ran <= 1
            /\ (ran = 1) <=> (acc >= self.fftSize)
            /\ ran = 1 => self'._fftCount = 0
            /\ ran = 0 => self'._fftCount = acc
            /\ self'._data = Held(signal, sent', self.bufferSize)
            /\ \A i \in 1..Len(trace') :
                   trace'[i].op = "fft" => trace'[i].data = self'._data]_vars

\* One capture of a chunk spanning two windows or more ran one transform,
\* left _fftCount at 0 and the buffer longer than a window.
C4_Witness ==
    /\ trace # <<>>
    /\ Len(GetChannelData(written[Len(written)], self.channel, self)) >= 2 * self.fftSize
    /\ Count(trace, "fft") = 1
    /\ self._fftCount = 0
    /\ Len(self._data) > self.fftSize

(***************************************************************************)
(* C5 as claimed.  Every transform takes exactly fftSize samples, the most *)
(* recent fftSize samples of the Time Buffer, for every fftSize and        *)
(* bufferSize.  Fails when 0 < bufferSize < fftSize.                       *)
(***************************************************************************)
C5_ExactlyFftSize ==
    \A i \in 1..Len(trace) :
        trace[i].op = "fft" =>
            /\ Len(trace[i].arg) = self.fftSize
            /\ Len(trace[i].data) >= self.fftSize
            /\ trace[i].arg = LastN(trace[i].data, self.fftSize)

(***************************************************************************)
(* C5 as amended.  Every transform takes the most recent                   *)
(* min(fftSize, buffer length) samples of the Time Buffer: exactly fftSize *)
(* samples when bufferSize >= fftSize or bufferSize = 0, and the whole     *)
(* buffer of bufferSize samples when 0 < bufferSize < fftSize.             *)
(***************************************************************************)
C5_WindowIsRecent ==
    \A i \in 1..Len(trace) :
        trace[i].op = "fft" =>
            LET input == trace[i].arg
                buffer == trace[i].data
            IN  /\ input = LastN(buffer, Min(self.fftSize, Len(buffer)))
                /\ buffer = Held(signal, sent, self.bufferSize)
                /\ (self.bufferSize = 0 \/ self.bufferSize >= self.fftSize)
                       => Len(input) = self.fftSize
                /\ (0 < self.bufferSize /\ self.bufferSize < self.fftSize)
                       => Len(input) = self.bufferSize /\ input = buffer

\* A transform ran on a buffer longer than the window, of distinct samples.
C5_Witness ==
    /\ Count(trace, "fft") = 1
    /\ signal = "ramp"
    /\ Len(self._data) > self.fftSize
    /\ self.bufferSize > self.fftSize

(***************************************************************************)
(* C6.  From a fresh analyser, once exactly fftSize samples in all have    *)
(* been captured, however split into chunks, one transform has run, in the *)
(* capture at which the count reached fftSize (and none before).           *)
(***************************************************************************)
C6_FirstTrigger ==
    /\ sent < self.fftSize => fftLog = <<>>
    /\ sent = self.fftSize => fftLog = <<self.fftSize>>

\* fftSize samples arrived in three non-empty chunks.
C6_Witness ==
    /\ sent = self.fftSize
    /\ Len(written) = 3
    /\ \A i \in 1..3 : written[i] # <<>>
    /\ Len(fftLog) = 1

(***************************************************************************)
(* C7.  In every capture, completion is deferred (cb handed to setTimeout, *)
(* not called) if and only if throttle is truthy and                       *)
(* _timeoutCount / sampleRate > throttle / 1000, with _timeoutCount        *)
(* counting this chunk's samples; _timeoutCount then becomes its value     *)
(* modulo floor(sampleRate / throttle) (NaN for a modulus of 0, as % gives *)
(* in JavaScript).  Otherwise cb is called inside the capture and          *)
(* _timeoutCount keeps the sum.                                            *)
(***************************************************************************)
C7_Throttle ==
    [][WriteStep =>
        LET acc == IF self._timeoutCount = NaN THEN NaN
                   ELSE self._timeoutCount + (sent' - sent)
            due == /\ self.throttle # 0
                   /\ acc # NaN
                   /\ acc * 1000 > self.throttle * self.sampleRate
        IN  /\ due <=> Count(trace', "setTimeout") = 1
            /\ due =>
                 /\ Count(trace', "cb") = 0
                 /\ cbCount' = cbCount
                 /\ timers' = timers + 1
                 /\ LET modulus == self.sampleRate \div self.throttle
                    IN  self'._timeoutCount =
                            IF modulus = 0 THEN NaN ELSE acc % modulus
            /\ ~due =>
                 /\ Count(trace', "cb") = 1
                 /\ Count(trace', "setTimeout") = 0
                 /\ cbCount' = cbCount + 1
                 /\ timers' = timers
                 /\ self'._timeoutCount = acc]_vars

\* A deferral that left a remainder smaller than the count it reduced.
C7_Witness ==
    /\ Count(trace, "setTimeout") = 1
    /\ self.throttle = 25
    /\ self._timeoutCount = 1
    /\ Len(written) = 1

(***************************************************************************)
(* C8.  With throttle = 50 and sampleRate = 44100 a capture defers         *)
(* completion exactly when _timeoutCount, the carried remainder plus the   *)
(* chunk's samples, exceeds 2205, once however far above 2205 it is; the   *)
(* remainder it leaves (modulo 882) is below the threshold, so the next    *)
(* capture defers only if its samples take the count above 2205 anew.      *)
(* Every other capture calls cb synchronously.                             *)
(***************************************************************************)
C8_OncePerCrossing ==
    /\ [](self._timeoutCount <= 2205)
    /\ [][WriteStep =>
            LET acc == self._timeoutCount + (sent' - sent)
            IN  /\ Count(trace', "setTimeout") = (IF acc > 2205 THEN 1 ELSE 0)
                /\ Count(trace', "cb") = (IF acc > 2205 THEN 0 ELSE 1)
                /\ timers' = timers + (IF acc > 2205 THEN 1 ELSE 0)
                /\ self'._timeoutCount = (IF acc > 2205 THEN acc % 882 ELSE acc)]_vars

\* A deferral (2206 samples), a synchronous capture (882 more on a remainder
\* of 442) and a second deferral (882 more), still pending.
C8_Witness ==
    /\ self.throttle = 50 /\ self.sampleRate = 44100
    /\ Len(written) = 3
    /\ Len(written[1]) = 2206 /\ Len(written[2]) = 882 /\ Len(written[3]) = 882
    /\ cbCount = 2
    /\ timers = 1
    /\ self._timeoutCount = 442

(***************************************************************************)
(* C9.  Every capture signals completion exactly once: cb is called inside *)
(* the capture, or else handed to one timer and called when that timer     *)
(* runs, on a later turn and not inside the call; every pending timer      *)
(* runs, so the producer waiting for cb is never blocked forever.          *)
(***************************************************************************)
C9_CompletesOnce ==
    /\ [](/\ cbCount + timers = Len(written)
          /\ timers \in {0, 1}
          /\ writing <=> timers = 1)
    /\ [][WriteStep =>
            /\ Count(trace', "cb") + Count(trace', "setTimeout") = 1
            /\ Count(trace', "setTimeout") = 1 => cbCount' = cbCount /\ writing'
            /\ Count(trace', "cb") = 1 => cbCount' = cbCount + 1 /\ ~writing']_vars
    /\ [][timers' < timers => cbCount' = cbCount + 1 /\ ~WriteStep]_vars
    /\ (writing ~> ~writing)

\* A second deferred completion is pending after the first one ran.
C9_Witness ==
    /\ writing
    /\ timers = 1
    /\ cbCount >= 1
    /\ Len(written) = cbCount + 1
    /\ Count(trace, "setTimeout") = 1
    /\ self._timeoutCount # NaN

(***************************************************************************)
(* C10.  Two analysers that differ in their throttle option only and are   *)
(* fed the same chunks hold, after every capture, the same Time Buffer,    *)
(* the same spectrum and the same _fftCount.                               *)
(***************************************************************************)
C10_ThrottleNeutral ==
    /\ self.throttle # twin.throttle
    /\ [self EXCEPT !.throttle = 0, !._timeoutCount = 0, !._readableState = 0]
         = [twin EXCEPT !.throttle = 0, !._timeoutCount = 0, !._readableState = 0]
    /\ self._data = twin._data
    /\ self._fdata = twin._fdata
    /\ self._fftCount = twin._fftCount

\* The two differ in _timeoutCount after a deferral of one of them, and a
\* transform has left a spectrum that is not all zero.
C10_Witness ==
    /\ self._timeoutCount # twin._timeoutCount
    /\ Count(trace, "setTimeout") = 1
    /\ Count(trace, "fft") = 1
    /\ \E i \in 1..self.fftSize : IsNum(self._fdata[i]) /\ self._fdata[i] # FNum(0)

(***************************************************************************)
(* The accessors' vocabulary                                               *)
(***************************************************************************)
\* A step in which an accessor was called, or the caller modified the array
\* a call returned.
AccessStep == call'.op # "none" /\ written' = written /\ timers' = timers

\* The entries of s as numbers.
Nums(s) == [i \in 1..Len(s) |-> FNum(s[i])]

(***************************************************************************)
(* C11.  No call of any of the six accessors changes the Time Buffer, the  *)
(* spectrum, _fftCount or _timeoutCount (nor anything else of the          *)
(* analyser); the arrays getFrequencyData and getTimeData return are newly *)
(* allocated, so a caller modifying them changes none of these either.     *)
(***************************************************************************)
C11_AccessorsReadOnly ==
    /\ [](call.op \in {"getFrequencyData", "getTimeData"} => call.ref = "new")
    /\ [][AccessStep =>
            /\ self'._data = self._data
            /\ self'._fdata = self._fdata
            /\ self'._fftCount = self._fftCount
            /\ self'._timeoutCount = self._timeoutCount
            /\ self' = self]_vars

\* getTimeData returned the whole of a buffer of two samples or more, after
\* a transform, and the caller overwrote its first entry.
C11_Witness ==
    /\ call.op = "getTimeData"
    /\ call.modified
    /\ Len(call.ret.v) = Len(self._data)
    /\ Len(self._data) >= 2
    /\ call.ret.v[1] # FNum(self._data[1])
    /\ fftLog # <<>>

(***************************************************************************)
(* C12.  getFloatFrequencyData(dest) and getByteFrequencyData(dest) write  *)
(* exactly the indices below min(frequencyBinCount, dest.length), each     *)
(* from the entry of _fdata at the same index (as it is, or converted to a *)
(* byte; undefined where _fdata has no such entry), and leave every other  *)
(* entry of dest, and its length, as they were.                            *)
(***************************************************************************)
C12_FrequencyCopyBounded ==
    (/\ call.op \in {"getFloatFrequencyData", "getByteFrequencyData"}
     /\ call.arg.defined
     /\ ~call.modified) =>
        LET before == call.arg.v
            after == call.ret.v
            l == Min(self.frequencyBinCount, Len(before))
            entry(c) == IF c <= Len(self._fdata) THEN self._fdata[c] ELSE Undefined
        IN  /\ ~call.threw
            /\ Len(after) = Len(before)
            /\ \A c \in 1..Len(before) :
                   /\ c > l => after[c] = before[c]
                   /\ c <= l =>
                        /\ after[c] # before[c]
                        /\ call.op = "getFloatFrequencyData" => after[c] = entry(c)
                        /\ call.op = "getByteFrequencyData" =>
                               after[c] = ConvertToByte(entry(c), SpecScale)

\* Three of five entries were written, from a spectrum that is not all zero.
C12_Witness ==
    /\ call.op = "getFloatFrequencyData"
    /\ call.arg.defined
    /\ ~call.modified
    /\ self.frequencyBinCount = 3
    /\ Len(call.arg.v) = 5
    /\ call.ret.v[2] = self._fdata[2]
    /\ IsNum(call.ret.v[2]) /\ call.ret.v[2] # FNum(0)
    /\ call.ret.v[4] = Old(3)

(***************************************************************************)
(* C13.  An analyser constructed without a frequencyBinCount option has    *)
(* frequencyBinCount = fftSize / 2, so the frequency accessors write       *)
(* min(fftSize / 2, dest.length) entries, each an existing entry of the    *)
(* spectrum.  Fails for every fftSize but 1024: the prototype's            *)
(* frequencyBinCount is the number 512, whatever fftSize is configured.    *)
(***************************************************************************)
C13_BinCountHalfFftSize ==
    "frequencyBinCount" \notin DOMAIN options =>
        /\ 2 * self.frequencyBinCount = self.fftSize
        /\ (/\ call.op \in {"getFloatFrequencyData", "getByteFrequencyData"}
            /\ call.arg.defined
            /\ ~call.modified) =>
               \A c \in 1..Len(call.arg.v) :
                   /\ (call.ret.v[c] # call.arg.v[c])
                          <=> (2 * c <= self.fftSize)
                   /\ call.ret.v[c] # Undefined

\* What the code does instead: the count is 512 and the accessors write
\* every entry of dest, entries from index fftSize on with undefined.
C13_BinCountIsConstant ==
    "frequencyBinCount" \notin DOMAIN options =>
        /\ self.frequencyBinCount = 512
        /\ (/\ call.op = "getFloatFrequencyData"
            /\ call.arg.defined
            /\ ~call.modified) =>
               \A c \in 1..Len(call.arg.v) :
                   call.ret.v[c] = IF c <= self.fftSize THEN self._fdata[c]
                                   ELSE Undefined

(***************************************************************************)
(* C14.  getFloatTimeDomainData(dest) and getByteTimeDomainData(dest) copy *)
(* the most recent n = min(dest.length, fftSize) samples of the Time       *)
(* Buffer to dest[0 .. n - 1] in arrival order, the newest sample at       *)
(* dest[n - 1], for every dest.length and every buffer length (read here   *)
(* in the accessors' favour: where the buffer holds fewer than n samples   *)
(* nothing is asked of the entries below them).  Fails for dest shorter    *)
(* than fftSize: the copy starts fftSize samples before the end of the     *)
(* buffer, so dest receives the oldest n samples of the last fftSize.      *)
(***************************************************************************)
C14_TimeCopyNewestLast ==
    (/\ call.op \in {"getFloatTimeDomainData", "getByteTimeDomainData"}
     /\ call.arg.defined
     /\ ~call.modified) =>
        LET before == call.arg.v
            after == call.ret.v
            len == Len(self._data)
            n == Min(Len(before), self.fftSize)
        IN  \A c \in 1..Len(before) :
                /\ c > n => after[c] = before[c]
                /\ (c <= n /\ len - n + c >= 1) =>
                       after[c] = IF call.op = "getFloatTimeDomainData"
                                  THEN FNum(self._data[len - n + c])
                                  ELSE ConvertToByte(FNum(self._data[len - n + c]), 1)

\* What the code does instead: dest[c] receives _data[length - fftSize + c]
\* for c < n, which is undefined where that index is negative.
C14_TimeCopyFromWindowStart ==
    (/\ call.op \in {"getFloatTimeDomainData", "getByteTimeDomainData"}
     /\ call.arg.defined
     /\ ~call.modified) =>
        LET before == call.arg.v
            after == call.ret.v
            n == Min(Len(before), self.fftSize)
            at(c) == LET i == Len(self._data) - self.fftSize + c
                     IN  IF i >= 1 THEN FNum(self._data[i]) ELSE Undefined
        IN  /\ Len(after) = Len(before)
            /\ \A c \in 1..Len(before) :
                   /\ c > n => after[c] = before[c]
                   /\ c <= n =>
                          after[c] = IF call.op = "getFloatTimeDomainData" THEN at(c)
                                     ELSE ConvertToByte(at(c), 1)

(***************************************************************************)
(* C15 as claimed.  getFrequencyData(size) returns the first               *)
(* min(size, spectrum length) entries of the spectrum and getTimeData(size) *)
(* the last min(size, buffer length) samples of the Time Buffer, for every *)
(* supplied size >= 0, size 0 giving an empty result; an omitted size      *)
(* stands for fftSize.  Fails for size 0: size || this.fftSize takes 0 for *)
(* an omitted size.                                                        *)
(***************************************************************************)
C15_SizeZeroIsEmpty ==
    (call.op \in {"getFrequencyData", "getTimeData"} /\ ~call.modified) =>
        LET size == IF call.arg.defined THEN call.arg.v ELSE self.fftSize
        IN  /\ call.op = "getFrequencyData" =>
                call.ret.v = SubSeq(self._fdata, 1, Min(size, Len(self._fdata)))
            /\ call.op = "getTimeData" =>
                call.ret.v = Nums(LastN(self._data, Min(size, Len(self._data))))

(***************************************************************************)
(* C15 as amended.  The same for every supplied size >= 1; a size that is  *)
(* omitted or 0 stands for fftSize, so getFrequencyData(0) returns the     *)
(* whole spectrum and getTimeData(0) the last min(fftSize, buffer length)  *)
(* samples.                                                                *)
(***************************************************************************)
C15_SizeOrFftSize ==
    (call.op \in {"getFrequencyData", "getTimeData"} /\ ~call.modified) =>
        LET size == IF call.arg.defined /\ call.arg.v >= 1 THEN call.arg.v
                    ELSE self.fftSize
        IN  /\ call.ret.defined
            /\ ~call.threw
            /\ call.op = "getFrequencyData" =>
                /\ Len(call.ret.v) = Min(size, Len(self._fdata))
                /\ call.ret.v = SubSeq(self._fdata, 1, Min(size, Len(self._fdata)))
            /\ call.op = "getTimeData" =>
                /\ Len(call.ret.v) = Min(size, Len(self._data))
                /\ call.ret.v = Nums(LastN(self._data, Min(size, Len(self._data))))
            /\ (call.arg.defined /\ call.arg.v = 0 /\ call.op = "getFrequencyData")
                   => call.ret.v = self._fdata

\* getFrequencyData(1) returned the first bin alone, which differs from the
\* last, and getTimeData would have more than one sample to choose from.
C15_Witness ==
    /\ call.op = "getFrequencyData"
    /\ call.arg.defined /\ call.arg.v = 1
    /\ ~call.modified
    /\ call.ret.v = <<self._fdata[1]>>
    /\ self._fdata[1] # self._fdata[self.fftSize]
    /\ IsNum(self._fdata[1])
    /\ Len(self._data) > self.fftSize

(***************************************************************************)
(* C16.  Called without a destination, each of getFloatFrequencyData,      *)
(* getByteFrequencyData, getFloatTimeDomainData and getByteTimeDomainData  *)
(* returns the absent value it was given, throws nothing and changes       *)
(* nothing of the analyser; and no accessor throws, however few samples    *)
(* the Time Buffer holds.                                                  *)
(***************************************************************************)
C16_AbsentDestination ==
    /\ [](/\ ~call.threw
          /\ (/\ call.op \in {"getFloatFrequencyData", "getByteFrequencyData",
                              "getFloatTimeDomainData", "getByteTimeDomainData"}
              /\ ~call.arg.defined) =>
                 /\ ~call.ret.defined
                 /\ call.ref = "arg"
                 /\ ~call.modified)
    /\ [][(AccessStep /\ ~call'.arg.defined) =>
            /\ self' = self
            /\ ~call'.threw
            /\ call'.ret.defined <=> call'.op \in {"getFrequencyData", "getTimeData"}]_vars

\* getByteTimeDomainData() was called without a destination while the buffer
\* held samples, but fewer than fftSize.
C16_Witness ==
    /\ call.op = "getByteTimeDomainData"
    /\ ~call.arg.defined
    /\ ~call.ret.defined
    /\ ~call.threw
    /\ self._data # <<>>
    /\ Len(self._data) < self.fftSize

(***************************************************************************)
(* The spectrum's vocabulary                                               *)
(***************************************************************************)
\* Re(transform(window))[i] * w / (2 * fftSize) for every bin i of a spectrum
\* of size entries, in units of 1 / SpecScale (w = 2 is the weight 1, w = 1
\* the weight 1/2); NaN in the bins the transform of a short window lacks.
Weighted(window, w, size) ==
    [i \in 1..size |->
        IF i <= Len(window)
        THEN FNum((w * ReDFT(window, i - 1) * SpecScale) \div (2 * size))
        ELSE FNaN]

\* The window of the transform that ran once total samples had arrived.
WindowAt(total) ==
    LET buffer == Held(signal, total, self.bufferSize)
    IN  LastN(buffer, Min(self.fftSize, Len(buffer)))

(***************************************************************************)
(* C17.  With smoothingTimeConstant = 0 every transform leaves, in every   *)
(* bin i, Re(transform(latest window))[i] / fftSize, whatever the spectrum *)
(* held before: the same window fed twice leaves its raw result.           *)
(***************************************************************************)
C17_NoMemory ==
    [][(WriteStep /\ self.smoothingTimeConstant = 0 /\ Count(trace', "fft") = 1) =>
        LET window == Args(trace', {"fft"})[1]
        IN  /\ window = WindowAt(sent')
            /\ self'._fdata = Weighted(window, 2, self.fftSize)]_vars

\* The window 1, 0, -1, 0 was transformed twice in a row with k = 0, and the
\* spectrum is its raw result 0, 1/2, 0, 1/2.
C17_Witness ==
    /\ self.smoothingTimeConstant = 0
    /\ self.fftSize = 4
    /\ fftLog = <<4, 8>>
    /\ WindowAt(4) = <<1, 0, -1, 0>>
    /\ WindowAt(8) = WindowAt(4)
    /\ self._fdata = <<FNum(0), FNum(SpecScale \div 2), FNum(0), FNum(SpecScale \div 2)>>

(***************************************************************************)
(* C18.  After the first transform of a fresh analyser every bin i holds   *)
(* (1 - k) * Re(transform(window))[i] / fftSize; with fftSize = 4, k = 0   *)
(* and the samples 1, 0, -1, 0 written as one mono chunk, the real parts   *)
(* are 0, 2, 0, 2 and the spectrum is 0, 0.5, 0, 0.5.                      *)
(***************************************************************************)
C18_FirstSpectrum ==
    /\ [i \in 1..4 |-> ReDFT(<<1, 0, -1, 0>>, i - 1)] = <<0, 2, 0, 2>>
    /\ Len(fftLog) = 1 =>
           self._fdata = Weighted(WindowAt(fftLog[1]),
                                  2 - self.smoothingTimeConstant, self.fftSize)
    /\ (/\ self.fftSize = 4
        /\ self.smoothingTimeConstant = 0
        /\ self.channels = 1
        /\ written = << <<1, 0, -1, 0>> >>) =>
           self._fdata = <<FNum(0), FNum(SpecScale \div 2),
                           FNum(0), FNum(SpecScale \div 2)>>

\* The scenario: one mono chunk 1, 0, -1, 0 into a fresh analyser of
\* fftSize 4 and k = 0, which ran its first transform.
C18_Witness ==
    /\ self.fftSize = 4
    /\ self.smoothingTimeConstant = 0
    /\ self.channels = 1 /\ self.channel = 0
    /\ written = << <<1, 0, -1, 0>> >>
    /\ fftLog = <<4>>
    /\ Count(trace, "fft") = 1
    /\ self._fdata[2] = FNum(SpecScale \div 2)

(***************************************************************************)
(* C19.  With bufferSize >= fftSize > 0 the Time Buffer holds at least     *)
(* fftSize samples whenever a transform runs, the first one after          *)
(* construction included, and the window has fftSize samples; a transform  *)
(* on fewer than fftSize samples happens only with bufferSize < fftSize.   *)
(***************************************************************************)
C19_NoShortWindow ==
    \A i \in 1..Len(trace) :
        trace[i].op = "fft" =>
            /\ (self.bufferSize >= self.fftSize /\ self.fftSize > 0) =>
                   /\ Len(trace[i].data) >= self.fftSize
                   /\ Len(trace[i].arg) = self.fftSize
            /\ (Len(trace[i].data) < self.fftSize \/ Len(trace[i].arg) < self.fftSize)
                   => self.bufferSize < self.fftSize

\* The first transform after construction ran on a buffer of exactly
\* bufferSize = fftSize samples, reached in two chunks.
C19_Witness ==
    /\ self.bufferSize = self.fftSize
    /\ fftLog = <<self.fftSize>>
    /\ Len(written) = 2
    /\ Count(trace, "fft") = 1
    /\ Len(trace[2].data) = self.fftSize
    /\ Len(trace[2].arg) = self.fftSize

(***************************************************************************)
(* C20.  For every truthy throttle and every sampleRate, the capture that  *)
(* defers completion leaves _timeoutCount a non-negative integer with      *)
(* _timeoutCount / sampleRate <= throttle / 1000, so a capture of no       *)
(* samples that follows completes synchronously.  Fails where              *)
(* floor(sampleRate / throttle) is 0 (the count becomes NaN) and where it  *)
(* exceeds the threshold (the remainder stays above it).                   *)
(***************************************************************************)
C20_RemainderBelowThreshold ==
    [][WriteStep =>
        /\ Count(trace', "setTimeout") = 1 =>
               /\ self'._timeoutCount # NaN
               /\ self'._timeoutCount >= 0
               /\ self'._timeoutCount * 1000 <= self.throttle * self.sampleRate
        /\ (Count(trace, "setTimeout") = 1 /\ written # <<>> /\ sent' = sent) =>
               Count(trace', "setTimeout") = 0]_vars

\* The same where 1 <= floor(sampleRate / throttle) and the largest
\* remainder is within the threshold (this part of C20 holds).
C20_HoldsForSmallModulus ==
    [][(/\ WriteStep
        /\ self.throttle # 0
        /\ self.sampleRate \div self.throttle >= 1
        /\ ((self.sampleRate \div self.throttle) - 1) * 1000
               <= self.throttle * self.sampleRate) =>
        /\ Count(trace', "setTimeout") = 1 =>
               /\ self'._timeoutCount # NaN
               /\ self'._timeoutCount >= 0
               /\ self'._timeoutCount * 1000 <= self.throttle * self.sampleRate
        /\ (Count(trace, "setTimeout") = 1 /\ written # <<>> /\ sent' = sent) =>
               Count(trace', "setTimeout") = 0]_vars

====
